---- MODULE Spec2Model ----
(***************************************************************************)
(* Model of fbpic/main.py: the Simulation driver (constructor and the PIC  *)
(* cycle of step) and the grid-alignment function adapt_to_grid.           *)
(*                                                                         *)
(* Positions are integers in a unit chosen so that every grid spacing dx   *)
(* is even: 0.5*dx is then the exact integer dx \div 2.  Time is an        *)
(* integer number of time units, dt a positive integer.                    *)
(***************************************************************************)
EXTENDS Integers, Sequences, FiniteSets, TLC

VARIABLES
    \* ---- the Simulation object (self.*) ----
    fld,            \* self.fld       : "absent" or "Fields"
    ptcl,           \* self.ptcl      : "absent" or the sequence of species
    dt,             \* self.dt
    p_nz,           \* self.p_nz
    time,           \* self.time
    iteration,      \* self.iteration
    diags,          \* self.diags     : "absent" or a sequence of diagnostics
    moving_win,     \* self.moving_win: "absent", "None" or "MovingWindow"
    \* ---- the running call (__init__ or step) ----
    pc,             \* the statement the running call executes next
    args,           \* arguments and locals of a running __init__
    N,              \* step: number of cycles asked for
    i_step,         \* step: loop variable of line 157
    k,              \* index in the running loop over species / diagnostics
    flags,          \* step: the six keyword flags
    err,            \* the exception the last call ended with, or "none"
    \* ---- what the collaborators have seen ----
    trace,          \* collaborator calls of the running cycle (or __init__)
    written,        \* diag.write calls of the running step call
    mutated,        \* which of field / particle state changed since the
                    \* last fully completed cycle (or since construction)
    iter0,          \* self.iteration when the running step call began
    \* ---- a stand-alone call of adapt_to_grid ----
    x, p_xmin, p_xmax, p_nx,
    apc,            \* "start", "called", "recalled"
    adapted,        \* what adapt_to_grid(x, p_xmin, p_xmax, p_nx) returned
    readapted,      \* what adapt_to_grid returned on the adapted bounds
    \* ---- the field container, when it is taken to keep its contract ----
    contract,       \* whether the content of the container is followed:
                    \* FALSE leaves the container a black box
    slots,          \* the time levels of the charge densities it holds and
                    \* which of E, B were brought back to the interpolation
                    \* grid since the last push
    interrupted     \* an exception of a collaborator has ended a step call
                    \* since the last fully completed cycle

simvars   == <<fld, ptcl, dt, p_nz, time, iteration, diags, moving_win>>
callvars  == <<pc, args, N, i_step, k, flags, err>>
seenvars  == <<trace, written, mutated, iter0>>
adaptvars == <<x, p_xmin, p_xmax, p_nx, apc, adapted, readapted>>
fieldvars == <<contract, slots, interrupted>>
vars      == <<simvars, callvars, seenvars, adaptvars, fieldvars>>

(***************************************************************************)
(* Bounds of the model.                                                    *)
(***************************************************************************)
MaxIter   == 2      \* step calls keep self.iteration <= MaxIter
MaxDiags  == 2      \* diagnostics attached at most
MaxDt     == 2      \* dt in 1..MaxDt
MaxPpc    == 2      \* particles per cell in 1..MaxPpc
MaxNx     == 4      \* grid points of a stand-alone grid in 2..MaxNx
MaxHalfDx == 2      \* dx = 2*h, h in 1..MaxHalfDx
MaxReq    == 14     \* requested bounds in -MaxReq..MaxReq
MaxCtorReq == 2     \* requested bounds of __init__ in -MaxCtorReq..MaxCtorReq

Absent == "absent"

(***************************************************************************)
(* Grids: x[i] = x0 + (i-1)*dx, evenly spaced and increasing, as           *)
(* Fields builds fld.interp[0].z and fld.interp[0].r.                      *)
(***************************************************************************)
Grid(x0, dx, n) == [i \in 1..n |-> x0 + (i - 1) * dx]

SeqMin(s) == CHOOSE v \in {s[i] : i \in DOMAIN s} :
                 \A w \in {s[i] : i \in DOMAIN s} : v <= w
SeqMax(s) == CHOOSE v \in {s[i] : i \in DOMAIN s} :
                 \A w \in {s[i] : i \in DOMAIN s} : v >= w

\* the lower clamp without the half-cell margin
ClampMinToGrid(g, lo) ==
    LET dx == g[2] - g[1]
    IN  IF lo < SeqMin(g) - dx \div 2 THEN SeqMin(g) ELSE lo

\* lines 259-264: the two clamps
ClampMin(g, lo) ==
    LET dx == g[2] - g[1]
    IN  IF lo < SeqMin(g) - dx \div 2 THEN SeqMin(g) - dx \div 2 ELSE lo
ClampMax(g, hi) ==
    LET dx == g[2] - g[1]
    IN  IF hi > SeqMax(g) + dx \div 2 THEN SeqMax(g) + dx \div 2 ELSE hi

\* the selection takes the grid points on the bounds too
x_loadClosed(g, lo, hi) ==
    {g[i] : i \in {j \in DOMAIN g : g[j] >= lo /\ g[j] <= hi}}

\* line 267: x[ (x > p_xmin) & (x < p_xmax) ], as the set of selected points
x_load(g, lo, hi) == {g[i] : i \in {j \in DOMAIN g : g[j] > lo /\ g[j] < hi}}

SetMin(S) == CHOOSE v \in S : \A w \in S : v <= w
SetMax(S) == CHOOSE v \in S : \A w \in S : v >= w

\* the lower bound put on the grid point itself
LowerEdgeOnGrid(sel, dx) == SetMin(sel)

\* the upper bound put on the grid point itself
UpperEdgeOnGrid(sel, dx) == SetMax(sel)

\* line 268 and line 269
LowerEdge(sel, dx) == SetMin(sel) - dx \div 2
UpperEdge(sel, dx) == SetMax(sel) + dx \div 2

\* an empty selection falls back to the clamped request and no particle
adapt_to_grid_fallback(g, lo, hi, p) ==
    LET dx  == g[2] - g[1]
        cl  == ClampMin(g, lo)
        ch  == ClampMax(g, hi)
        sel == x_load(g, cl, ch)
    IN  IF sel = {}
        THEN [ok |-> TRUE, p_xmin |-> cl, p_xmax |-> ch, Npx |-> 0]
        ELSE [ok |-> TRUE,
              p_xmin |-> LowerEdge(sel, dx),
              p_xmax |-> UpperEdge(sel, dx),
              Npx    |-> Cardinality(sel) * p]

\* lines 230-274.  min() of an empty selection raises (numpy: ValueError).
adapt_to_grid(g, lo, hi, p) ==
    LET dx  == g[2] - g[1]
        cl  == ClampMin(g, lo)
        ch  == ClampMax(g, hi)
        sel == x_load(g, cl, ch)
    IN  IF sel = {}
        THEN [ok |-> FALSE, raised |-> "ValueError"]
        ELSE [ok |-> TRUE,
              p_xmin |-> LowerEdge(sel, dx),
              p_xmax |-> UpperEdge(sel, dx),
              Npx    |-> Cardinality(sel) * p]

(***************************************************************************)
(* Records of what a collaborator was asked to do.                         *)
(***************************************************************************)
Call(op, on, arg, val) == [op |-> op, on |-> on, arg |-> arg, val |-> val]

\* What the field container s holds once the call c has returned, when the
\* particles that deposit are at time level lvl: a deposit of rho puts the
\* charge density of lvl on the interpolation grid; interp2spect copies the
\* grid's density into the spectral slot named; push advances E and B in
\* spectral space and then makes rho_next the new rho_prev; spect2interp
\* brings one of E, B back to the interpolation grid.  A container that is
\* a black box (contract = FALSE) is not followed.
FieldEffect(c, s, lvl) ==
    CASE ~contract -> s
      [] c.op = "deposit" /\ c.arg = "rho" -> [s EXCEPT !.rho = lvl]
      [] c.op = "interp2spect" /\ c.arg \in {"rho_prev", "rho_next"}
                                           -> [s EXCEPT ![c.arg] = s.rho]
      [] c.op = "push" -> [s EXCEPT !.rho_prev = s.rho_next,
                                    !.refreshed = {}]
      [] c.op = "spect2interp" -> [s EXCEPT !.refreshed = @ \cup {c.arg}]
      [] OTHER -> s

NoArgs  == [z |-> <<>>, r |-> <<>>, p_zmin |-> 0, p_zmax |-> 0, Npz |-> 0,
            p_rmin |-> 0, p_rmax |-> 0, Npr |-> 0, p_nz |-> 0, p_nr |-> 0,
            dt |-> 0]
NoFlags == [ptcl_feedback |-> FALSE, correct_currents |-> FALSE,
            filter_currents |-> FALSE, move_positions |-> FALSE,
            move_momenta |-> FALSE, moving_window |-> FALSE]
NoRet   == [ok |-> FALSE, raised |-> "not called"]
\* a field container nothing was deposited on: no charge density of any
\* time level (-1), E and B equal (zero) on both grids
NoSlots == [rho |-> -1, rho_prev |-> -1, rho_next |-> -1,
            refreshed |-> {"E", "B"}]

\* no Simulation object, no running call
NoSim ==
    /\ fld = Absent /\ ptcl = Absent /\ dt = Absent /\ p_nz = Absent
    /\ time = Absent /\ iteration = Absent /\ diags = Absent
    /\ moving_win = Absent
    /\ pc = "none" /\ args = NoArgs /\ N = 0 /\ i_step = 0 /\ k = 1
    /\ flags = NoFlags /\ err = "none"
    /\ trace = <<>> /\ written = <<>> /\ mutated = {}
    /\ iter0 = 0
    /\ contract = FALSE /\ slots = NoSlots /\ interrupted = FALSE

\* no stand-alone call of adapt_to_grid
NoAdapt ==
    /\ x = <<>> /\ p_xmin = 0 /\ p_xmax = 0 /\ p_nx = 0
    /\ apc = "none" /\ adapted = NoRet /\ readapted = NoRet

(***************************************************************************)
(* A stand-alone call of adapt_to_grid, and a second call on what the      *)
(* first returned.                                                         *)
(***************************************************************************)
\* the two worked examples: grid 0..9 with dx = 1, in units of 0.1
ExampleGrid   == Grid(0, 10, 10)
ExampleInputs == { <<ExampleGrid, -3, 94, 2>>, <<ExampleGrid, -100, 200, 3>> }

SmallInputs ==
    { <<Grid(x0, 2 * h, n), lo, hi, p>> :
          x0 \in -1..1, h \in 1..MaxHalfDx, n \in 2..MaxNx,
          lo \in -MaxReq..MaxReq, hi \in -MaxReq..MaxReq, p \in 1..MaxPpc }

InitAdapt ==
    /\ NoSim
    /\ \E inp \in SmallInputs \cup ExampleInputs :
          /\ x = inp[1] /\ p_xmin = inp[2] /\ p_xmax = inp[3] /\ p_nx = inp[4]
    /\ apc = "start" /\ adapted = NoRet /\ readapted = NoRet

CallAdapt ==
    /\ apc = "start"
    /\ adapted' = adapt_to_grid(x, p_xmin, p_xmax, p_nx)
    /\ apc' = "called"
    /\ UNCHANGED <<x, p_xmin, p_xmax, p_nx, readapted>>
    /\ UNCHANGED <<simvars, callvars, seenvars, fieldvars>>

ReAdapt ==
    /\ apc = "called"
    /\ adapted.ok
    /\ readapted' = adapt_to_grid(x, adapted.p_xmin, adapted.p_xmax, p_nx)
    /\ apc' = "recalled"
    /\ UNCHANGED <<x, p_xmin, p_xmax, p_nx, adapted>>
    /\ UNCHANGED <<simvars, callvars, seenvars, fieldvars>>

NextAdapt == CallAdapt \/ ReAdapt

SpecAdapt == InitAdapt /\ [][NextAdapt]_vars

(***************************************************************************)
(* Simulation.__init__ (lines 26-107).  A collaborator's constructor or    *)
(* method may raise; __init__ catches nothing, so the exception ends it.   *)
(***************************************************************************)
CtorGrid   == Grid(0, 2, 2)
CtorReqs   == {3 * i - 2 : i \in 0..MaxCtorReq}
CtorInputs ==
    { [z |-> CtorGrid, r |-> CtorGrid, p_zmin |-> zl, p_zmax |-> zh, Npz |-> 0,
       p_rmin |-> rl, p_rmax |-> rh, Npr |-> 0, p_nz |-> nz, p_nr |-> nr,
       dt |-> d] :
          zl \in CtorReqs, zh \in CtorReqs, rl \in CtorReqs, rh \in CtorReqs,
          nz \in 1..MaxPpc, nr \in 1..MaxPpc, d \in 1..MaxDt }

Species == <<"electrons", "ions">>

\* Simulation(...) is called: nothing of the object exists yet
Init ==
    /\ fld = Absent /\ ptcl = Absent /\ dt = Absent /\ p_nz = Absent
    /\ time = Absent /\ iteration = Absent /\ diags = Absent
    /\ moving_win = Absent
    /\ pc = "ctor_fields" /\ args \in CtorInputs
    /\ N = 0 /\ i_step = 0 /\ k = 1 /\ flags = NoFlags /\ err = "none"
    /\ trace = <<>> /\ written = <<>> /\ mutated = {}
    /\ iter0 = 0
    /\ contract = FALSE /\ slots = NoSlots /\ interrupted = FALSE
    /\ NoAdapt

\* an exception leaves __init__: no object is returned
CtorRaise(e) ==
    /\ pc' = "aborted"
    /\ err' = e
    /\ UNCHANGED <<simvars, args, N, i_step, k, flags, seenvars,
                   adaptvars, fieldvars>>

\* line 72
CtorFields ==
    /\ pc = "ctor_fields"
    /\ \/ /\ fld' = "Fields"
          /\ trace' = Append(trace, Call("Fields", "fld", "", <<>>))
          /\ pc' = "ctor_adapt_z"
          /\ UNCHANGED <<ptcl, dt, p_nz, time, iteration, diags, moving_win,
                         args, N, i_step, k, flags, err,
                         written, mutated, iter0, adaptvars, fieldvars>>
       \/ CtorRaise("CollaboratorError")

\* lines 76-77
CtorAdaptZ ==
    /\ pc = "ctor_adapt_z"
    /\ LET a == adapt_to_grid(args.z, args.p_zmin, args.p_zmax, args.p_nz)
       IN  IF a.ok
           THEN /\ args' = [args EXCEPT !.p_zmin = a.p_xmin,
                                        !.p_zmax = a.p_xmax, !.Npz = a.Npx]
                /\ pc' = "ctor_adapt_r"
                /\ UNCHANGED <<simvars, N, i_step, k, flags, err,
                               seenvars, adaptvars, fieldvars>>
           ELSE CtorRaise(a.raised)

\* lines 78-79
CtorAdaptR ==
    /\ pc = "ctor_adapt_r"
    /\ LET a == adapt_to_grid(args.r, args.p_rmin, args.p_rmax, args.p_nr)
       IN  IF a.ok
           THEN /\ args' = [args EXCEPT !.p_rmin = a.p_xmin,
                                        !.p_rmax = a.p_xmax, !.Npr = a.Npx]
                /\ pc' = "ctor_particles"
                /\ UNCHANGED <<simvars, N, i_step, k, flags, err,
                               seenvars, adaptvars, fieldvars>>
           ELSE CtorRaise(a.raised)

\* the loading arguments both Particles(...) calls of lines 83-88 receive
LoadArgs == <<args.Npz, args.p_zmin, args.p_zmax,
              args.Npr, args.p_rmin, args.p_rmax>>

\* lines 82-97
CtorParticles ==
    /\ pc = "ctor_particles"
    /\ \/ /\ ptcl' = Species
          /\ trace' = trace \o <<Call("Particles", Species[1], "", LoadArgs),
                                 Call("Particles", Species[2], "", LoadArgs)>>
          /\ dt' = args.dt
          /\ p_nz' = args.p_nz
          /\ time' = 0
          /\ iteration' = 0
          /\ pc' = "ctor_deposit"
          /\ k' = 1
          /\ UNCHANGED <<fld, diags, moving_win, args, N, i_step, flags, err,
                         written, mutated, iter0, adaptvars, fieldvars>>
       \/ CtorRaise("CollaboratorError")

\* lines 100-101
CtorDeposit ==
    /\ pc = "ctor_deposit"
    /\ \/ /\ trace' = Append(trace, Call("deposit", ptcl[k], "rho", <<>>))
          /\ slots' = FieldEffect(Call("deposit", ptcl[k], "rho", <<>>),
                                  slots, iteration)
          /\ IF k < Len(ptcl)
             THEN k' = k + 1 /\ pc' = pc
             ELSE k' = 1 /\ pc' = "ctor_divide"
          /\ UNCHANGED <<simvars, args, N, i_step, flags, err,
                         written, mutated, iter0, adaptvars, interrupted, contract>>
       \/ CtorRaise("CollaboratorError")

\* line 102
CtorDivide ==
    /\ pc = "ctor_divide"
    /\ \/ /\ trace' = Append(trace, Call("divide_by_volume", "fld", "rho", <<>>))
          /\ pc' = "ctor_interp2spect"
          /\ UNCHANGED <<simvars, args, N, i_step, k, flags, err,
                         written, mutated, iter0, adaptvars, fieldvars>>
       \/ CtorRaise("CollaboratorError")

\* the initial charge density is brought to spectral space as rho_next
CtorInterp2SpectNext ==
    /\ pc = "ctor_interp2spect"
    /\ \/ /\ trace' = Append(trace, Call("interp2spect", "fld", "rho_next", <<>>))
          /\ slots' = FieldEffect(Call("interp2spect", "fld", "rho_next", <<>>),
                                  slots, iteration)
          /\ pc' = "ctor_diags"
          /\ UNCHANGED <<simvars, args, N, i_step, k, flags, err,
                         written, mutated, iter0, adaptvars, interrupted, contract>>
       \/ CtorRaise("CollaboratorError")

\* line 104
CtorInterp2Spect ==
    /\ pc = "ctor_interp2spect"
    /\ \/ /\ trace' = Append(trace, Call("interp2spect", "fld", "rho_prev", <<>>))
          /\ slots' = FieldEffect(Call("interp2spect", "fld", "rho_prev", <<>>),
                                  slots, iteration)
          /\ pc' = "ctor_diags"
          /\ UNCHANGED <<simvars, args, N, i_step, k, flags, err,
                         written, mutated, iter0, adaptvars, interrupted, contract>>
       \/ CtorRaise("CollaboratorError")

\* line 107, and the return of __init__: its arguments and locals are gone
CtorDiags ==
    /\ pc = "ctor_diags"
    /\ diags' = <<>>
    /\ pc' = "idle"
    /\ args' = NoArgs
    /\ trace' = <<>>
    /\ UNCHANGED <<fld, ptcl, dt, p_nz, time, iteration, moving_win,
                   N, i_step, k, flags, err,
                   written, mutated, iter0, adaptvars, fieldvars>>

Ctor ==
    \/ CtorFields \/ CtorAdaptZ \/ CtorAdaptR \/ CtorParticles
    \/ CtorDeposit \/ CtorDivide \/ CtorInterp2Spect \/ CtorDiags

(***************************************************************************)
(* What the caller does between calls (docstring of step, lines 139-142,   *)
(* and the list of line 107).                                              *)
(***************************************************************************)
\* sim.moving_win = MovingWindow(...)
AttachMovingWindow ==
    /\ pc = "idle"
    /\ moving_win # "MovingWindow"
    /\ moving_win' = "MovingWindow"
    /\ UNCHANGED <<fld, ptcl, dt, p_nz, time, iteration, diags,
                   callvars, seenvars, adaptvars, fieldvars>>

\* sim.moving_win = None
DetachMovingWindow ==
    /\ pc = "idle"
    /\ moving_win = "MovingWindow"
    /\ moving_win' = "None"
    /\ UNCHANGED <<fld, ptcl, dt, p_nz, time, iteration, diags,
                   callvars, seenvars, adaptvars, fieldvars>>

\* sim.diags.append(diag): diagnostics are numbered in the order attached
AttachDiag ==
    /\ pc = "idle"
    /\ Len(diags) < MaxDiags
    /\ diags' = Append(diags, Len(diags) + 1)
    /\ UNCHANGED <<fld, ptcl, dt, p_nz, time, iteration, moving_win,
                   callvars, seenvars, adaptvars, fieldvars>>

(***************************************************************************)
(* Simulation.step (lines 111-220).                                        *)
(***************************************************************************)
AllFlags == [ptcl_feedback : BOOLEAN, correct_currents : BOOLEAN,
             filter_currents : BOOLEAN, move_positions : BOOLEAN,
             move_momenta : BOOLEAN, moving_window : BOOLEAN]

\* the window is moved after the fields are gathered
BodyMoveAfterGather ==
        <<"diag", "bar", "gather", "move", "push_p", "halfpush_x1",
          "eraseJ", "depositJ", "divideJ", "dampJ", "interp2spectJ",
          "filterJ", "halfpush_x2", "eraseRho", "depositRho", "divideRho",
          "dampRho", "interp2spectRho", "filterRho", "correct", "push",
          "spect2interpE", "spect2interpB", "incr">>

\* the diagnostics are written at the end of the cycle
BodyDiagLast ==
        <<"bar", "move", "gather", "push_p", "halfpush_x1",
          "eraseJ", "depositJ", "divideJ", "dampJ", "interp2spectJ",
          "filterJ", "halfpush_x2", "eraseRho", "depositRho", "divideRho",
          "dampRho", "interp2spectRho", "filterRho", "correct", "push",
          "spect2interpE", "spect2interpB", "diag", "incr">>

\* the currents are corrected as soon as J is in spectral space
BodyCorrectEarly ==
        <<"diag", "bar", "move", "gather", "push_p", "halfpush_x1",
          "eraseJ", "depositJ", "divideJ", "dampJ", "interp2spectJ",
          "filterJ", "correct", "halfpush_x2", "eraseRho", "depositRho",
          "divideRho", "dampRho", "interp2spectRho", "filterRho", "push",
          "spect2interpE", "spect2interpB", "incr">>

\* J is normalized before the species have deposited it
BodyDivideBeforeDeposit ==
    <<"diag", "bar", "move", "gather", "push_p", "halfpush_x1",
      "eraseJ", "divideJ", "depositJ", "dampJ", "interp2spectJ",
      "filterJ", "halfpush_x2", "eraseRho", "depositRho", "divideRho",
      "dampRho", "interp2spectRho", "filterRho", "correct", "push",
      "spect2interpE", "spect2interpB", "incr">>

\* the second half-push of the positions comes after rho is deposited
BodyHalfpushLate ==
    <<"diag", "bar", "move", "gather", "push_p", "halfpush_x1",
      "eraseJ", "depositJ", "divideJ", "dampJ", "interp2spectJ",
      "filterJ", "eraseRho", "depositRho", "halfpush_x2", "divideRho",
      "dampRho", "interp2spectRho", "filterRho", "correct", "push",
      "spect2interpE", "spect2interpB", "incr">>

\* E and B are brought back to the interpolation grid before the push
BodyRefreshBeforePush ==
    <<"diag", "bar", "move", "gather", "push_p", "halfpush_x1",
      "eraseJ", "depositJ", "divideJ", "dampJ", "interp2spectJ",
      "filterJ", "halfpush_x2", "eraseRho", "depositRho", "divideRho",
      "dampRho", "interp2spectRho", "filterRho", "correct",
      "spect2interpE", "spect2interpB", "push", "incr">>

\* the statements of one cycle, in program order (lines 159-220)
Body == <<"diag", "bar", "move", "gather", "push_p", "halfpush_x1",
          "eraseJ", "depositJ", "divideJ", "dampJ", "interp2spectJ",
          "filterJ", "halfpush_x2", "eraseRho", "depositRho", "divideRho",
          "dampRho", "interp2spectRho", "filterRho", "correct", "push",
          "spect2interpE", "spect2interpB", "incr">>

\* the damping is not under the test of moving_window
RunsDampAlways(l, f, ds, sp) ==
    CASE l = "diag"                                    -> ds # <<>>
      [] l = "move"                                    -> f.moving_window
      [] l \in {"gather", "depositJ", "depositRho"}    -> sp # <<>>
      [] l = "push_p"                   -> f.move_momenta /\ sp # <<>>
      [] l \in {"halfpush_x1", "halfpush_x2"}
                                        -> f.move_positions /\ sp # <<>>
      [] l \in {"filterJ", "filterRho"}                -> f.filter_currents
      [] l = "correct"                                 -> f.correct_currents
      [] OTHER                                         -> TRUE

\* the filtering of rho_next is under the test of correct_currents
RunsFilterWithCorrect(l, f, ds, sp) ==
    CASE l = "diag"                                    -> ds # <<>>
      [] l = "move"                                    -> f.moving_window
      [] l \in {"gather", "depositJ", "depositRho"}    -> sp # <<>>
      [] l = "push_p"                   -> f.move_momenta /\ sp # <<>>
      [] l \in {"halfpush_x1", "halfpush_x2"}
                                        -> f.move_positions /\ sp # <<>>
      [] l \in {"dampJ", "dampRho"}                    -> f.moving_window
      [] l = "filterJ"                                 -> f.filter_currents
      [] l = "filterRho"                               -> f.correct_currents
      [] l = "correct"                                 -> f.correct_currents
      [] OTHER                                         -> TRUE

\* whether statement l is executed: the if of its block, a non-empty loop
Runs(l, f, ds, sp) ==
    CASE l = "diag"                                    -> ds # <<>>
      [] l = "move"                                    -> f.moving_window
      [] l \in {"gather", "depositJ", "depositRho"}    -> sp # <<>>
      [] l = "push_p"                   -> f.move_momenta /\ sp # <<>>
      [] l \in {"halfpush_x1", "halfpush_x2"}
                                        -> f.move_positions /\ sp # <<>>
      [] l \in {"dampJ", "dampRho"}                    -> f.moving_window
      [] l \in {"filterJ", "filterRho"}                -> f.filter_currents
      [] l = "correct"                                 -> f.correct_currents
      [] OTHER                                         -> TRUE

\* the first statement at or after position i that is executed
First(i, f, ds, sp) ==
    Body[CHOOSE j \in i..Len(Body) :
             /\ Runs(Body[j], f, ds, sp)
             /\ \A h \in i..(j - 1) : ~Runs(Body[h], f, ds, sp)]

Pos(l) == CHOOSE j \in DOMAIN Body : Body[j] = l

\* the statement executed after statement l of the running cycle
After(l) == First(Pos(l) + 1, flags, diags, ptcl)

\* only the hasattr test, not the test for None
MovingWindowMissingNoNone(f, mw) ==
    f.moving_window /\ mw = Absent

\* lines 150-152
MovingWindowMissing(f, mw) ==
    f.moving_window /\ (mw = Absent \/ mw = "None")

\* step returns or raises: its arguments and locals are gone
StepEnds(e) ==
    /\ pc' = "idle"
    /\ err' = e
    /\ N' = 0 /\ i_step' = 0 /\ k' = 1 /\ flags' = NoFlags
    /\ trace' = <<>> /\ written' = <<>> /\ iter0' = 0
    /\ UNCHANGED <<args, adaptvars, contract>>

\* lines 111-146: step is called; its arguments are bound
StepCall ==
    /\ pc = "idle"
    /\ \E n \in 0..(MaxIter - iteration), f \in AllFlags :
          /\ N' = n /\ flags' = f
    /\ i_step' = 0 /\ k' = 1
    /\ iter0' = iteration
    /\ err' = "none"
    /\ trace' = <<>> /\ written' = <<>>
    /\ pc' = "check"
    /\ UNCHANGED <<simvars, args, mutated, adaptvars, fieldvars>>

\* an off-by-one loop bound: one cycle too many
LoopGoesOnInclusive(i, n) == i + 1 <= n

\* line 157: xrange(N) has a value for the loop variable after i
LoopGoesOn(i, n) == i + 1 < n

\* lines 148-157: the check of the moving window, then the loop is entered
CheckMovingWindow ==
    /\ pc = "check"
    /\ IF MovingWindowMissing(flags, moving_win)
       THEN /\ StepEnds("AttributeError")
            /\ UNCHANGED <<simvars, mutated, fieldvars>>
       ELSE IF ~LoopGoesOn(-1, N)
       THEN /\ StepEnds("none")
            /\ UNCHANGED <<simvars, mutated, fieldvars>>
       ELSE /\ pc' = First(1, flags, diags, ptcl)
            /\ UNCHANGED <<simvars, args, N, i_step, k, flags, err,
                           seenvars, adaptvars, fieldvars>>

\* a cycle whose collaborator raises is counted as done before step ends
CollabWCounts(l, c, touches, more, w) ==
    /\ pc = l
    /\ \/ /\ trace' = Append(trace, c)
          /\ mutated' = mutated \cup touches
          /\ written' = w
          /\ IF more THEN pc' = l /\ k' = k + 1
                     ELSE pc' = After(l) /\ k' = 1
          /\ slots' = FieldEffect(c, slots, iteration + 1)
          /\ UNCHANGED <<simvars, args, N, i_step, flags, err,
                         iter0, adaptvars, interrupted, contract>>
       \/ /\ \E done \in BOOLEAN :
                /\ mutated' = IF done THEN mutated \cup touches ELSE mutated
                /\ slots' = IF done THEN FieldEffect(c, slots, iteration + 1)
                                    ELSE slots
          /\ interrupted' = contract
          /\ StepEnds("CollaboratorError")
          /\ time' = time + dt
          /\ iteration' = iteration + 1
          /\ UNCHANGED <<fld, ptcl, dt, p_nz, diags, moving_win>>

\* an exception of a collaborator is swallowed and the cycle goes on
CollabWSwallow(l, c, touches, more, w) ==
    /\ pc = l
    /\ \/ /\ trace' = Append(trace, c)
          /\ mutated' = mutated \cup touches
          /\ written' = w
          /\ IF more THEN pc' = l /\ k' = k + 1
                     ELSE pc' = After(l) /\ k' = 1
          /\ slots' = FieldEffect(c, slots, iteration + 1)
          /\ UNCHANGED <<simvars, args, N, i_step, flags, err,
                         iter0, adaptvars, interrupted, contract>>
       \/ /\ mutated' = mutated \cup touches
          /\ slots' = FieldEffect(c, slots, iteration + 1)
          /\ IF more THEN pc' = l /\ k' = k + 1
                     ELSE pc' = After(l) /\ k' = 1
          /\ UNCHANGED <<simvars, args, N, i_step, flags, err,
                         trace, written, iter0, adaptvars, interrupted, contract>>

\* a collaborator is called at statement l: the call c returns, or raises
\* an exception that step does not catch.  more: the loop has a next round;
\* w: the diagnostics' record once the call has returned.
CollabW(l, c, touches, more, w) ==
    /\ pc = l
    /\ \/ /\ trace' = Append(trace, c)
          /\ mutated' = mutated \cup touches
          /\ written' = w
          /\ IF more THEN pc' = l /\ k' = k + 1
                     ELSE pc' = After(l) /\ k' = 1
          /\ slots' = FieldEffect(c, slots, iteration + 1)
          /\ UNCHANGED <<simvars, args, N, i_step, flags, err,
                         iter0, adaptvars, interrupted, contract>>
       \/ /\ \E done \in BOOLEAN :
                /\ mutated' = IF done THEN mutated \cup touches ELSE mutated
                /\ slots' = IF done THEN FieldEffect(c, slots, iteration + 1)
                                    ELSE slots
          /\ interrupted' = contract
          /\ StepEnds("CollaboratorError")
          /\ UNCHANGED simvars

Collab(l, c, touches, more) == CollabW(l, c, touches, more, written)

\* lines 160-161
DiagWrite ==
    CollabW("diag", Call("write", "diags", "iteration", <<diags[k], iteration>>),
            {}, k < Len(diags), Append(written, <<diags[k], iteration>>))

\* line 164 (lines 222-228): prints, touches nothing of the simulation
ProgressionBar ==
    /\ pc = "bar"
    /\ trace' = Append(trace, Call("progression_bar", "stdout", "", <<i_step, N>>))
    /\ pc' = After("bar")
    /\ UNCHANGED <<simvars, args, N, i_step, k, flags, err,
                   written, mutated, iter0, adaptvars, fieldvars>>

\* lines 167-168
MoveWindow ==
    Collab("move", Call("move", "moving_win", "fld,ptcl", <<p_nz, dt>>),
           {"fld", "ptcl"}, FALSE)

\* lines 171-172
Gather ==
    Collab("gather", Call("gather", ptcl[k], "fld.interp", <<>>),
           {"ptcl"}, k < Len(ptcl))

\* lines 175-177
PushP ==
    Collab("push_p", Call("push_p", ptcl[k], "", <<>>),
           {"ptcl"}, k < Len(ptcl))

\* lines 178-180
HalfpushX1 ==
    Collab("halfpush_x1", Call("halfpush_x", ptcl[k], "", <<>>),
           {"ptcl"}, k < Len(ptcl))

\* line 182
EraseJ ==
    Collab("eraseJ", Call("erase", "fld", "J", <<>>), {"fld"}, FALSE)

\* lines 183-184
DepositJ ==
    Collab("depositJ", Call("deposit", ptcl[k], "J", <<>>),
           {"fld"}, k < Len(ptcl))

\* line 185
DivideJ ==
    Collab("divideJ", Call("divide_by_volume", "fld", "J", <<>>),
           {"fld"}, FALSE)

\* lines 186-187
DampJ ==
    Collab("dampJ", Call("damp", "moving_win", "J", <<>>), {"fld"}, FALSE)

\* line 189
Interp2SpectJ ==
    Collab("interp2spectJ", Call("interp2spect", "fld", "J", <<>>),
           {"fld"}, FALSE)

\* lines 190-191
FilterJ ==
    Collab("filterJ", Call("filter_spect", "fld", "J", <<>>), {"fld"}, FALSE)

\* lines 194-196
HalfpushX2 ==
    Collab("halfpush_x2", Call("halfpush_x", ptcl[k], "", <<>>),
           {"ptcl"}, k < Len(ptcl))

\* line 198
EraseRho ==
    Collab("eraseRho", Call("erase", "fld", "rho", <<>>), {"fld"}, FALSE)

\* lines 199-200
DepositRho ==
    Collab("depositRho", Call("deposit", ptcl[k], "rho", <<>>),
           {"fld"}, k < Len(ptcl))

\* line 201
DivideRho ==
    Collab("divideRho", Call("divide_by_volume", "fld", "rho", <<>>),
           {"fld"}, FALSE)

\* lines 202-203
DampRho ==
    Collab("dampRho", Call("damp", "moving_win", "rho", <<>>), {"fld"}, FALSE)

\* the cycle brings the new charge density to spectral space as rho_prev
Interp2SpectRhoPrev ==
    Collab("interp2spectRho", Call("interp2spect", "fld", "rho_prev", <<>>),
           {"fld"}, FALSE)

\* line 205
Interp2SpectRho ==
    Collab("interp2spectRho", Call("interp2spect", "fld", "rho_next", <<>>),
           {"fld"}, FALSE)

\* lines 206-207
FilterRho ==
    Collab("filterRho", Call("filter_spect", "fld", "rho_next", <<>>),
           {"fld"}, FALSE)

\* lines 209-210
CorrectCurrents ==
    Collab("correct", Call("correct_currents", "fld", "", <<>>),
           {"fld"}, FALSE)

\* line 213
Push ==
    Collab("push",
           Call("push", "fld",
                IF flags.ptcl_feedback THEN "True" ELSE "False", <<>>),
           {"fld"}, FALSE)

\* line 215
Spect2InterpE ==
    Collab("spect2interpE", Call("spect2interp", "fld", "E", <<>>),
           {"fld"}, FALSE)

\* line 216
Spect2InterpB ==
    Collab("spect2interpB", Call("spect2interp", "fld", "B", <<>>),
           {"fld"}, FALSE)

\* the end of a cycle adds the timestep to self.dt, not to self.time
IncrementDt ==
    /\ pc = "incr"
    /\ dt' = dt + dt
    /\ iteration' = iteration + 1
    /\ mutated' = {}
    /\ IF LoopGoesOn(i_step, N)
       THEN /\ i_step' = i_step + 1
            /\ trace' = <<>>
            /\ k' = 1
            /\ pc' = First(1, flags, diags, ptcl)
            /\ UNCHANGED <<args, N, flags, err, written, iter0,
                           adaptvars, contract>>
       ELSE StepEnds("none")
    /\ interrupted' = FALSE
    /\ UNCHANGED slots
    /\ UNCHANGED <<fld, ptcl, time, p_nz, diags, moving_win>>

\* lines 219-220, then the loop of line 157 goes on or step returns.
\* A cycle is complete: the field and particle state is a cycle boundary.
Increment ==
    /\ pc = "incr"
    /\ time' = time + dt
    /\ iteration' = iteration + 1
    /\ mutated' = {}
    /\ IF LoopGoesOn(i_step, N)
       THEN /\ i_step' = i_step + 1
            /\ trace' = <<>>
            /\ k' = 1
            /\ pc' = First(1, flags, diags, ptcl)
            /\ UNCHANGED <<args, N, flags, err, written, iter0,
                           adaptvars, contract>>
       ELSE StepEnds("none")
    /\ interrupted' = FALSE
    /\ UNCHANGED slots
    /\ UNCHANGED <<fld, ptcl, dt, p_nz, diags, moving_win>>

Cycle ==
    \/ DiagWrite \/ ProgressionBar \/ MoveWindow \/ Gather \/ PushP
    \/ HalfpushX1 \/ EraseJ \/ DepositJ \/ DivideJ \/ DampJ
    \/ Interp2SpectJ \/ FilterJ \/ HalfpushX2 \/ EraseRho \/ DepositRho
    \/ DivideRho \/ DampRho \/ Interp2SpectRho \/ FilterRho
    \/ CorrectCurrents \/ Push \/ Spect2InterpE \/ Spect2InterpB
    \/ Increment

Caller == AttachMovingWindow \/ DetachMovingWindow \/ AttachDiag

Next == Ctor \/ Caller \/ StepCall \/ CheckMovingWindow \/ Cycle

Spec == Init /\ [][Next]_vars

\* The same driver with a field container that keeps its contract, for one
\* timestep and one particle number per cell.
InitFields ==
    /\ fld = Absent /\ ptcl = Absent /\ dt = Absent /\ p_nz = Absent
    /\ time = Absent /\ iteration = Absent /\ diags = Absent
    /\ moving_win = Absent
    /\ pc = "ctor_fields"
    /\ args \in {a \in CtorInputs : a.dt = 1 /\ a.p_nz = 1 /\ a.p_nr = 1}
    /\ N = 0 /\ i_step = 0 /\ k = 1 /\ flags = NoFlags /\ err = "none"
    /\ trace = <<>> /\ written = <<>> /\ mutated = {}
    /\ iter0 = 0
    /\ contract = TRUE /\ slots = NoSlots /\ interrupted = FALSE
    /\ NoAdapt

SpecFields == InitFields /\ [][Next]_vars

(***************************************************************************)
(* Properties.                                                             *)
(***************************************************************************)
CtorPcs  == {"ctor_fields", "ctor_adapt_z", "ctor_adapt_r", "ctor_particles",
             "ctor_deposit", "ctor_divide", "ctor_interp2spect", "ctor_diags"}
CyclePcs == {Body[j] : j \in DOMAIN Body}
InStep   == CyclePcs \cup {"check"}
\* lines 93-97 have run: dt, p_nz, time and iteration exist
Timed    == InStep \cup {"idle", "ctor_deposit", "ctor_divide",
                         "ctor_interp2spect", "ctor_diags"}

\* the positions in the trace of the calls of operation op (on field arg)
At(op)         == {j \in DOMAIN trace : trace[j].op = op}
AtArg(op, arg) == {j \in DOMAIN trace : trace[j].op = op /\ trace[j].arg = arg}
\* the driver is in a cycle and has made all collaborator calls of it
CycleDone      == pc = "incr"

\* C1: a completed step(N) increases iteration by exactly N, whatever the
\* flags, and time = iteration * dt holds from construction on and after
\* every completed cycle, across any sequence of step calls.
C1_StepAdvancesByN ==
    /\ [](pc \in Timed => time = iteration * dt)
    /\ [][(pc \in InStep /\ pc' = "idle" /\ err' = "none")
             => (iteration' = iter0 + N /\ time' = iteration' * dt')]_vars

\* two cycles have completed with dt = 2 and a moving window attached
C1_Witness ==
    /\ pc = "idle" /\ err = "none" /\ iteration = 2 /\ dt = 2 /\ time = 4
    /\ moving_win = "MovingWindow"

\* C2: step with moving_window = True and no MovingWindow attached (the
\* attribute absent or None) raises at the check, before the loop, for every
\* N: no collaborator is called and iteration, time and the field and
\* particle state are unchanged.
C2_PreconditionFailsFast ==
    [][(pc = "check" /\ flags.moving_window
           /\ (moving_win = Absent \/ moving_win = "None"))
          => /\ pc' = "idle" /\ err' = "AttributeError"
             /\ trace = <<>> /\ written = <<>>
             /\ trace' = <<>> /\ written' = <<>>
             /\ UNCHANGED <<simvars, mutated>>]_vars

\* the check has raised with moving_win set to None, after a completed cycle
C2_Witness ==
    /\ pc = "idle" /\ err = "AttributeError" /\ moving_win = "None"
    /\ iteration = 1 /\ diags # <<>>

\* C3: in every cycle run with moving_window = True, moving_win.move is called
\* exactly once, after all diag.write calls of that cycle and before the
\* gather of any species.
C3_MoveBeforeGather ==
    pc \in CyclePcs =>
       /\ Cardinality(At("move")) <= 1
       /\ (flags.moving_window /\ CycleDone) => Cardinality(At("move")) = 1
       /\ \A m \in At("move") :
             /\ Cardinality({j \in At("write") : j < m}) = Len(diags)
             /\ \A j \in At("write")  : j < m
             /\ \A g \in At("gather") : m < g
       /\ flags.moving_window =>
             \A g \in At("gather") : \E m \in At("move") : m < g

\* a cycle with two diagnostics and a moving window has made all its calls
C3_Witness ==
    /\ CycleDone /\ flags.moving_window /\ Len(diags) = 2
    /\ At("move") # {} /\ Cardinality(At("gather")) = 2

\* C4: in every cycle each attached diagnostic is written exactly once, in
\* the order attached, with the value iteration has before that cycle, and
\* before any moving-window, particle or field call of the cycle; a step(N)
\* started at iteration i0 writes i0, i0+1, .., i0+N-1 and never i0+N.
C4_DiagWrites ==
    pc \in CyclePcs =>
       LET L   == Len(diags)
           cnt == IF pc = "diag" THEN i_step * L + (k - 1)
                                 ELSE (i_step + 1) * L
       IN  /\ Len(written) = cnt
           /\ \A j \in DOMAIN written :
                 /\ written[j] = <<diags[((j - 1) % L) + 1],
                                   iter0 + ((j - 1) \div L)>>
                 /\ written[j][2] < iter0 + N
           /\ \A w \in At("write") :
                 /\ trace[w].val[2] = iter0 + i_step
                 /\ trace[w].val[2] = iteration
                 /\ \A j \in DOMAIN trace :
                       trace[j].op \notin {"write", "progression_bar"}
                          => w < j

\* the second cycle of step(2) with two diagnostics has made all its calls
C4_Witness ==
    /\ CycleDone /\ N = 2 /\ i_step = 1 /\ iter0 = 0
    /\ written = << <<1, 0>>, <<2, 0>>, <<1, 1>>, <<2, 1>> >>

\* C5: with correct_currents = True, fld.correct_currents is called exactly
\* once per cycle, after interp2spect('rho_next') of the same cycle (and after
\* the transform of J and the filtering of J and rho_next), and before
\* fld.push; with correct_currents = False it is never called.
C5_CorrectAfterRhoNext ==
    pc \in CyclePcs =>
       /\ ~flags.correct_currents => At("correct_currents") = {}
       /\ Cardinality(At("correct_currents")) <= 1
       /\ (flags.correct_currents /\ CycleDone)
             => Cardinality(At("correct_currents")) = 1
       /\ \A c \in At("correct_currents") :
             /\ \E j \in AtArg("interp2spect", "rho_next") : j < c
             /\ \E j \in AtArg("interp2spect", "J") : j < c
             /\ flags.filter_currents =>
                   /\ \E j \in AtArg("filter_spect", "rho_next") : j < c
                   /\ \E j \in AtArg("filter_spect", "J") : j < c
             /\ \A j \in At("push") : c < j
       /\ flags.correct_currents =>
             \A j \in At("push") : \E c \in At("correct_currents") : c < j

\* a cycle that filters and corrects has made all its calls
C5_Witness ==
    /\ CycleDone /\ flags.correct_currents /\ flags.filter_currents
    /\ At("correct_currents") # {} /\ At("push") # {}

\* C6 as stated: after a step call that a collaborator's exception ended,
\* the whole state (iteration, time, field and particle state) is the state
\* at the end of the last fully completed cycle.
C6_FailedStepAtBoundary ==
    (pc = "idle" /\ err = "CollaboratorError") =>
       /\ time = iteration * dt
       /\ mutated = {}

\* C6 as amended: a step call that a collaborator's exception ends leaves
\* iteration and time at their values at the end of the last fully completed
\* cycle (iteration = its value at the call + the cycles completed, time =
\* iteration * dt) and the other attributes of the driver untouched; what
\* the interrupted cycle changed in the field and particle state is not
\* undone.
C6_FailedStepKeepsCounters ==
    [][(pc \in CyclePcs /\ err' = "CollaboratorError")
          => /\ iteration' = iter0 + i_step
             /\ time' = (iter0 + i_step) * dt
             /\ UNCHANGED simvars
             /\ mutated \subseteq mutated']_vars

\* a call failed in its second cycle, with changed particle and field state
C6_Witness ==
    /\ pc = "idle" /\ err = "CollaboratorError"
    /\ iteration = 1 /\ time = dt
    /\ mutated = {"fld", "ptcl"}

\* C10: a collaborator's exception in cycle j (0-based) of step(N) ends the
\* call at once: the driver makes no further call of that cycle or of a
\* later one, the exception reaches the caller, iteration and time have
\* advanced by exactly j, and what earlier calls of the interrupted cycle
\* changed stays changed.  Every move out of a statement that calls a
\* collaborator is either that call returned, the cycle going on, or this
\* abort.
C10_FailureAborts ==
    [][(pc \in CyclePcs \ {"incr"})
          => \/ /\ pc' \in CyclePcs /\ err' = "none"
                /\ Len(trace') = Len(trace) + 1
                /\ SubSeq(trace', 1, Len(trace)) = trace
                /\ UNCHANGED <<N, i_step, flags, iter0, simvars>>
             \/ /\ pc' = "idle" /\ err' = "CollaboratorError"
                /\ N' = 0 /\ i_step' = 0 /\ flags' = NoFlags
                /\ trace' = <<>> /\ written' = <<>>
                /\ iteration' = iter0 + i_step
                /\ time' = (iter0 + i_step) * dt
                /\ i_step < N
                /\ UNCHANGED simvars
                /\ mutated \subseteq mutated']_vars

\* a call of step(2) failed in cycle 0, after the particles were changed
C10_Witness ==
    /\ pc = "idle" /\ err = "CollaboratorError"
    /\ iteration = 0 /\ time = 0 /\ mutated = {"ptcl"}

\* the grid points strictly between the requested bounds, the lower bound
\* raised to gridMin - dx/2 and the upper lowered to gridMax + dx/2
Inside(g, lo, hi) ==
    LET pts == {g[j] : j \in DOMAIN g}
        h   == (g[2] - g[1]) \div 2
    IN  {v \in pts :
            /\ v > lo
            /\ \E w \in pts : (\A u \in pts : w <= u) /\ v > w - h
            /\ v < hi
            /\ \E w \in pts : (\A u \in pts : w >= u) /\ v < w + h}

\* C7: on an evenly spaced increasing grid, when a grid point lies strictly
\* between the clamped bounds, adapt_to_grid returns (min(selected) - dx/2,
\* max(selected) + dx/2, count(selected) * p_nx) for the points selected;
\* grid 0..9 with (-0.3, 9.4, 2) gives (-0.5, 9.5, 20) and with (-10, 20, 3)
\* gives (-0.5, 9.5, 30)  (positions in units of 0.1).
C7_AdaptToGridResult ==
    apc \in {"called", "recalled"} =>
       LET S == Inside(x, p_xmin, p_xmax)
           h == (x[2] - x[1]) \div 2
       IN  /\ S # {} =>
                /\ adapted.ok
                /\ adapted.p_xmin + h \in S
                /\ adapted.p_xmax - h \in S
                /\ \A v \in S : adapted.p_xmin + h <= v
                                   /\ v <= adapted.p_xmax - h
                /\ adapted.Npx = Cardinality(S) * p_nx
           /\ (x = ExampleGrid /\ p_xmin = -3 /\ p_xmax = 94 /\ p_nx = 2)
                => adapted = [ok |-> TRUE, p_xmin |-> -5, p_xmax |-> 95,
                              Npx |-> 20]
           /\ (x = ExampleGrid /\ p_xmin = -100 /\ p_xmax = 200 /\ p_nx = 3)
                => adapted = [ok |-> TRUE, p_xmin |-> -5, p_xmax |-> 95,
                              Npx |-> 30]

\* the clamp example has been computed
C7_Witness ==
    /\ apc = "called" /\ x = ExampleGrid /\ p_xmin = -100 /\ p_xmax = 200
    /\ adapted.ok /\ adapted.Npx = 30

\* C8: when no grid point lies strictly between the clamped bounds,
\* adapt_to_grid raises instead of returning a triple and __init__ ends with
\* that exception: no species is created, no charge is deposited, and the
\* aborted construction does nothing more.
C8_EmptySelectionAborts ==
    /\ [][(\/ /\ pc = "ctor_adapt_z"
              /\ Inside(args.z, args.p_zmin, args.p_zmax) = {}
           \/ /\ pc = "ctor_adapt_r"
              /\ Inside(args.r, args.p_rmin, args.p_rmax) = {})
             => /\ pc' = "aborted" /\ err' = "ValueError"
                /\ ptcl' = Absent /\ iteration' = Absent
                /\ trace' = trace]_vars
    /\ [][pc = "aborted" => UNCHANGED vars]_vars
    /\ []((pc = "aborted" /\ err = "ValueError") =>
             /\ ptcl = Absent
             /\ At("Particles") = {} /\ At("deposit") = {}
             /\ At("divide_by_volume") = {} /\ At("interp2spect") = {})

\* the radial bounds select nothing after the longitudinal ones were aligned
C8_Witness ==
    /\ pc = "aborted" /\ err = "ValueError" /\ ptcl = Absent
    /\ args.Npz > 0 /\ args.Npr = 0 /\ fld = "Fields"

\* C9: for every call that returned (a, b, n) on grid x with p_nx particles
\* per cell, adapt_to_grid(x, a, b, p_nx) returns (a, b, n) again.
C9_AdaptIdempotent ==
    apc = "recalled" => (adapted.ok /\ readapted = adapted)

\* the second call has run on bounds the first call had moved
C9_Witness ==
    /\ apc = "recalled" /\ readapted.ok
    /\ adapted.p_xmin # p_xmin /\ adapted.p_xmax # p_xmax
    /\ adapted.Npx >= 2 * p_nx

\* the calls of the cycle so far that work on the interpolation-grid field
\* f or bring it to spectral space under the name t
Pipeline(f, t) ==
    AtArg("erase", f) \cup AtArg("deposit", f)
       \cup AtArg("divide_by_volume", f) \cup AtArg("damp", f)
       \cup AtArg("interp2spect", t)

\* the pipeline of field f, transformed as t, is in order in the trace
PipelineInOrder(f, t) ==
    LET E == AtArg("erase", f)
        D == AtArg("deposit", f)
        V == AtArg("divide_by_volume", f)
        M == AtArg("damp", f)
        T == AtArg("interp2spect", t)
    IN  /\ Cardinality(E) <= 1 /\ Cardinality(V) <= 1
        /\ Cardinality(M) <= 1 /\ Cardinality(T) <= 1
        /\ Cardinality(D) <= Len(ptcl)
        /\ \A d \in D :
              /\ \E e \in E : e < d
              /\ trace[d].on = ptcl[Cardinality({j \in D : j <= d})]
        /\ \A v \in V :
              /\ Cardinality({d \in D : d < v}) = Len(ptcl)
              /\ \A d \in D : d < v
        /\ \A m \in M : flags.moving_window /\ \E v \in V : v < m
        /\ \A u \in T :
              /\ \E v \in V : v < u
              /\ \A m \in M : m < u
              /\ flags.moving_window => M # {}
              /\ \A j \in Pipeline(f, t) : j <= u

\* C11: in every cycle, for J and then for rho: the field is erased, every
\* species deposits onto it once, in the order of ptcl, divide_by_volume
\* is called exactly once after the last deposit, then the optional damp,
\* then interp2spect (J as 'J', rho as 'rho_next'); the pipeline of J is
\* complete before rho is erased, and nothing is deposited onto a field
\* between its normalization and its transform.
C11_DepositPipelines ==
    pc \in CyclePcs =>
       /\ PipelineInOrder("J", "J")
       /\ PipelineInOrder("rho", "rho_next")
       /\ \A e \in AtArg("erase", "rho") :
             /\ AtArg("interp2spect", "J") # {}
             /\ \A j \in Pipeline("J", "J") : j < e
       /\ \A j \in Pipeline("rho", "rho_next") : AtArg("erase", "rho") # {}
       /\ At("interp2spect") =
             AtArg("interp2spect", "J") \cup AtArg("interp2spect", "rho_next")
       /\ CycleDone =>
             /\ Cardinality(AtArg("erase", "J")) = 1
             /\ Cardinality(AtArg("deposit", "J")) = Len(ptcl)
             /\ Cardinality(AtArg("divide_by_volume", "J")) = 1
             /\ Cardinality(AtArg("interp2spect", "J")) = 1
             /\ Cardinality(AtArg("erase", "rho")) = 1
             /\ Cardinality(AtArg("deposit", "rho")) = Len(ptcl)
             /\ Cardinality(AtArg("divide_by_volume", "rho")) = 1
             /\ Cardinality(AtArg("interp2spect", "rho_next")) = 1

\* a cycle with a moving window has made all its calls: both species have
\* deposited J and rho, and both fields were damped
C11_Witness ==
    /\ CycleDone /\ flags.moving_window
    /\ Cardinality(AtArg("deposit", "J")) = 2
    /\ Cardinality(AtArg("deposit", "rho")) = 2
    /\ AtArg("damp", "J") # {} /\ AtArg("damp", "rho") # {}

\* the calls of operation op on species s in the cycle so far
OnSpecies(op, s) == {j \in At(op) : trace[j].on = s}

\* every call of J is before every call of K
AllBefore(J, K) == \A j \in J, h \in K : j < h

\* the calls of J are made on the species of ptcl, one each, in order
PerSpecies(J) ==
    /\ Cardinality(J) <= Len(ptcl)
    /\ \A j \in J : trace[j].on = ptcl[Cardinality({h \in J : h <= j})]

\* C12: in every cycle the particle calls come in this order: gather for
\* every species; with move_momenta one push_p per species; with
\* move_positions one halfpush_x per species; the deposit of J; with
\* move_positions a second halfpush_x per species, after J was transformed
\* and filtered; the deposit of rho.  With move_positions every species is
\* half-pushed exactly twice per cycle, J is deposited after exactly one
\* half-push and rho after exactly two; without move_positions there is no
\* half-push and without move_momenta no push_p, while gather and both
\* deposits are made all the same.
C12_ParticleOrder ==
    pc \in CyclePcs =>
       LET G  == At("gather")
           P  == At("push_p")
           H  == At("halfpush_x")
           DJ == AtArg("deposit", "J")
           DR == AtArg("deposit", "rho")
           TJ == AtArg("interp2spect", "J")
           FJ == AtArg("filter_spect", "J")
           H1 == {h \in H : AllBefore({h}, DJ) /\ DJ # {}} \cup
                 (IF DJ = {} THEN H ELSE {})
           H2 == H \ H1
       IN  /\ PerSpecies(G) /\ PerSpecies(P) /\ PerSpecies(H1)
           /\ PerSpecies(H2) /\ PerSpecies(DJ) /\ PerSpecies(DR)
           /\ AllBefore(G, P \cup H \cup DJ \cup DR)
           /\ AllBefore(P, H \cup DJ \cup DR)
           /\ AllBefore(H1, DJ) /\ AllBefore(DJ, H2) /\ AllBefore(H2, DR)
           /\ AllBefore(TJ \cup FJ, H2)
           /\ ~flags.move_momenta  => P = {}
           /\ ~flags.move_positions => H = {}
           /\ (P \cup H \cup DJ \cup DR) # {} => Cardinality(G) = Len(ptcl)
           /\ (H \cup DJ \cup DR) # {} =>
                 Cardinality(P) = IF flags.move_momenta THEN Len(ptcl) ELSE 0
           /\ H2 # {} => TJ # {} /\ (flags.filter_currents => FJ # {})
           /\ \A d \in DJ : \A s \in 1..Len(ptcl) :
                 Cardinality({h \in OnSpecies("halfpush_x", ptcl[s]) : h < d})
                    = IF flags.move_positions THEN 1 ELSE 0
           /\ \A d \in DR : \A s \in 1..Len(ptcl) :
                 Cardinality({h \in OnSpecies("halfpush_x", ptcl[s]) : h < d})
                    = IF flags.move_positions THEN 2 ELSE 0
           /\ CycleDone =>
                 /\ Cardinality(G) = Len(ptcl)
                 /\ Cardinality(DJ) = Len(ptcl) /\ Cardinality(DR) = Len(ptcl)
                 /\ \A s \in 1..Len(ptcl) :
                       Cardinality(OnSpecies("halfpush_x", ptcl[s]))
                          = IF flags.move_positions THEN 2 ELSE 0

\* a cycle that moves momenta and positions has made all its calls
C12_Witness ==
    /\ CycleDone /\ flags.move_momenta /\ flags.move_positions
    /\ Cardinality(At("halfpush_x")) = 4 /\ Cardinality(At("push_p")) = 2

\* a cycle that moves nothing has gathered and deposited all the same
C12_WitnessFrozen ==
    /\ CycleDone /\ ~flags.move_momenta /\ ~flags.move_positions
    /\ Cardinality(At("gather")) = 2
    /\ Cardinality(AtArg("deposit", "rho")) = 2

\* C13: in every cycle run with moving_window = True the moving window's
\* damp is called exactly once on J, after divide_by_volume('J') and before
\* interp2spect('J'), and exactly once on rho, after divide_by_volume('rho')
\* and before interp2spect('rho_next'); in a cycle run with moving_window =
\* False neither move nor damp is called, also when a moving window is
\* attached.
C13_Damping ==
    pc \in CyclePcs =>
       /\ ~flags.moving_window => At("move") = {} /\ At("damp") = {}
       /\ At("damp") = AtArg("damp", "J") \cup AtArg("damp", "rho")
       /\ Cardinality(AtArg("damp", "J")) <= 1
       /\ Cardinality(AtArg("damp", "rho")) <= 1
       /\ \A m \in AtArg("damp", "J") :
             /\ \E v \in AtArg("divide_by_volume", "J") : v < m
             /\ \A u \in AtArg("interp2spect", "J") : m < u
             /\ trace[m].on = "moving_win"
       /\ \A m \in AtArg("damp", "rho") :
             /\ \E v \in AtArg("divide_by_volume", "rho") : v < m
             /\ \A u \in AtArg("interp2spect", "rho_next") : m < u
             /\ trace[m].on = "moving_win"
       /\ flags.moving_window =>
             /\ AtArg("interp2spect", "J") # {} => AtArg("damp", "J") # {}
             /\ AtArg("interp2spect", "rho_next") # {}
                   => AtArg("damp", "rho") # {}
             /\ CycleDone => /\ Cardinality(AtArg("damp", "J")) = 1
                             /\ Cardinality(AtArg("damp", "rho")) = 1

\* a cycle run without moving_window, with a moving window attached, has
\* made all its calls
C13_Witness ==
    /\ CycleDone /\ ~flags.moving_window /\ moving_win = "MovingWindow"
    /\ AtArg("interp2spect", "rho_next") # {}

\* a cycle run with moving_window has damped J and rho
C13_WitnessDamped ==
    /\ CycleDone /\ flags.moving_window
    /\ AtArg("damp", "J") # {} /\ AtArg("damp", "rho") # {}

\* C14: the filtering depends on filter_currents alone.  With
\* filter_currents = True every cycle filters J exactly once, as the call
\* right after interp2spect('J') (so before the second half-push), and
\* rho_next exactly once, as the call right after interp2spect('rho_next')
\* and before correct_currents and push; with filter_currents = False
\* filter_spect is never called.  No other field is filtered.
C14_Filtering ==
    pc \in CyclePcs =>
       LET FJ == AtArg("filter_spect", "J")
           FR == AtArg("filter_spect", "rho_next")
           TJ == AtArg("interp2spect", "J")
           TR == AtArg("interp2spect", "rho_next")
           H2 == {h \in At("halfpush_x") : \E d \in AtArg("deposit", "J") : d < h}
       IN  /\ ~flags.filter_currents => At("filter_spect") = {}
           /\ At("filter_spect") = FJ \cup FR
           /\ Cardinality(FJ) <= 1 /\ Cardinality(FR) <= 1
           /\ \A j \in FJ : j - 1 \in TJ /\ \A h \in H2 : j < h
           /\ \A j \in FR :
                 /\ j - 1 \in TR
                 /\ \A h \in At("correct_currents") \cup At("push") : j < h
           /\ flags.filter_currents =>
                 /\ \A t \in TJ : t = Len(trace) \/ t + 1 \in FJ
                 /\ \A t \in TR : t = Len(trace) \/ t + 1 \in FR
                 /\ (H2 \cup AtArg("erase", "rho")) # {} => FJ # {}
                 /\ (At("correct_currents") \cup At("push")) # {} => FR # {}
                 /\ CycleDone => Cardinality(FJ) = 1 /\ Cardinality(FR) = 1

\* a cycle that filters but does not correct the currents, and moves the
\* positions, has made all its calls
C14_Witness ==
    /\ CycleDone /\ flags.filter_currents /\ ~flags.correct_currents
    /\ flags.move_positions
    /\ AtArg("filter_spect", "J") # {} /\ AtArg("filter_spect", "rho_next") # {}

\* C17 as stated: whenever the requested interval is at least one grid
\* spacing wide, adapt_to_grid selects a grid point and returns a triple.
C17_WideRequestSucceeds ==
    (apc # "start" /\ apc # "none" /\ p_xmax - p_xmin >= x[2] - x[1])
       => adapted.ok

\* C17 as amended: whenever the requested interval is more than one grid
\* spacing wide and reaches into the grid (p_xmin < x.max() and p_xmax >
\* x.min()), adapt_to_grid selects a grid point and returns a triple; and it
\* returns a triple exactly when a grid point lies strictly inside the
\* requested interval.
C17_WideOverlappingRequestSucceeds ==
    (apc # "start" /\ apc # "none") =>
       /\ (/\ p_xmax - p_xmin > x[2] - x[1]
           /\ p_xmin < SeqMax(x) /\ p_xmax > SeqMin(x))
             => /\ adapted.ok
                /\ adapted.Npx >= p_nx
                /\ x_load(x, ClampMin(x, p_xmin), ClampMax(x, p_xmax)) # {}
       /\ adapted.ok <=> \E i \in DOMAIN x : p_xmin < x[i] /\ x[i] < p_xmax

\* a request wider than the spacing, inside the grid and off its points,
\* has selected exactly one grid point
C17_Witness ==
    /\ apc = "called" /\ adapted.ok
    /\ p_xmax - p_xmin = (x[2] - x[1]) + 1
    /\ p_xmin > SeqMin(x) /\ p_xmax < SeqMax(x)
    /\ adapted.Npx = p_nx

\* the distance of two positions
Dist(a, b) == IF a >= b THEN a - b ELSE b - a

\* C20: every triple (a, b, n) that adapt_to_grid returns has a = x[i] -
\* dx/2 and b = x[j] + dx/2 for grid points i <= j; x.min() - dx/2 <= a < b
\* <= x.max() + dx/2; b - a = (number of selected points) * dx; n = p_nx *
\* (b - a) / dx >= 0; and a and b are each within dx/2 of the clamped
\* requested bound of their side (so the returned interval may reach beyond
\* the requested one).
C20_ReturnedTriple ==
    (apc # "start" /\ apc # "none" /\ adapted.ok) =>
       LET dx  == x[2] - x[1]
           h   == dx \div 2
           a   == adapted.p_xmin
           b   == adapted.p_xmax
           cl  == IF p_xmin < SeqMin(x) - h THEN SeqMin(x) - h ELSE p_xmin
           ch  == IF p_xmax > SeqMax(x) + h THEN SeqMax(x) + h ELSE p_xmax
           cnt == Cardinality(Inside(x, p_xmin, p_xmax))
       IN  /\ \E i, j \in DOMAIN x :
                 i <= j /\ a = x[i] - h /\ b = x[j] + h
           /\ SeqMin(x) - h <= a /\ a < b /\ b <= SeqMax(x) + h
           /\ b - a = cnt * dx
           /\ adapted.Npx * dx = p_nx * (b - a)
           /\ adapted.Npx >= 0
           /\ Dist(a, cl) <= h /\ Dist(b, ch) <= h

\* a returned interval that reaches beyond the requested one on both sides
C20_Witness ==
    /\ apc = "called" /\ adapted.ok
    /\ adapted.p_xmin < p_xmin /\ adapted.p_xmax > p_xmax
    /\ p_xmin > SeqMin(x) /\ p_xmax < SeqMax(x)

\* lo, hi, n are bounds on cell boundaries of grid g and the number of
\* macroparticles of the cells between them, p per cell
Aligned(g, lo, hi, n, p) ==
    LET dx == g[2] - g[1]
    IN  /\ \E i, j \in DOMAIN g :
              i <= j /\ lo = g[i] - dx \div 2 /\ hi = g[j] + dx \div 2
        /\ n * dx = p * (hi - lo)

\* the collaborator calls of a whole __init__, in order
CtorCalls ==
    << Call("Fields", "fld", "", <<>>),
       Call("Particles", "electrons", "", LoadArgs),
       Call("Particles", "ions", "", LoadArgs),
       Call("deposit", "electrons", "rho", <<>>),
       Call("deposit", "ions", "rho", <<>>),
       Call("divide_by_volume", "fld", "rho", <<>>),
       Call("interp2spect", "fld", "rho_prev", <<>>) >>

\* how many of them have returned when __init__ is at pc
CtorCallsAt ==
    CASE pc = "ctor_fields"       -> 0
      [] pc \in {"ctor_adapt_z", "ctor_adapt_r", "ctor_particles"} -> 1
      [] pc = "ctor_deposit"      -> 2 + k
      [] pc = "ctor_divide"       -> 5
      [] pc = "ctor_interp2spect" -> 6
      [] pc = "ctor_diags"        -> 7

\* C18: __init__ creates the field container, aligns the longitudinal and
\* then the radial bounds with adapt_to_grid, constructs the two species
\* from the aligned bounds and counts, and then deposits the initial charge
\* (one deposit of rho per species, one divide_by_volume, one interp2spect
\* into rho_prev); when it returns iteration = 0, time = 0, diags is empty,
\* no moving window is attached, and no push, gather or particle move was
\* called.
C18_ConstructionOrder ==
    /\ [](pc \in CtorPcs =>
            /\ trace = SubSeq(CtorCalls, 1, CtorCallsAt)
            /\ pc = "ctor_fields" => fld = Absent
            /\ pc # "ctor_fields" => fld = "Fields"
            /\ pc = "ctor_adapt_z" => args.Npz = 0 /\ args.Npr = 0
            /\ pc = "ctor_adapt_r" => args.Npr = 0
            /\ pc \in CtorPcs \ {"ctor_fields", "ctor_adapt_z"} =>
                  Aligned(args.z, args.p_zmin, args.p_zmax, args.Npz, args.p_nz)
            /\ pc \in CtorPcs \ {"ctor_fields", "ctor_adapt_z", "ctor_adapt_r"}
                  => Aligned(args.r, args.p_rmin, args.p_rmax,
                             args.Npr, args.p_nr)
            /\ pc \in {"ctor_fields", "ctor_adapt_z", "ctor_adapt_r",
                       "ctor_particles"} => ptcl = Absent
            /\ pc \in {"ctor_deposit", "ctor_divide", "ctor_interp2spect",
                       "ctor_diags"} => ptcl = <<"electrons", "ions">>
            /\ moving_win = Absent
            /\ \A j \in DOMAIN trace :
                  trace[j].op \notin {"push", "gather", "push_p",
                                      "halfpush_x", "move"})
    /\ [][(pc \in CtorPcs /\ pc' = "idle")
            => (/\ trace = CtorCalls
                /\ iteration' = 0 /\ time' = 0 /\ diags' = <<>>
                /\ moving_win' = Absent /\ dt' = args.dt /\ p_nz' = args.p_nz
                /\ fld' = "Fields" /\ ptcl' = <<"electrons", "ions">>
                /\ mutated' = {})]_vars

\* __init__ has made all its calls; the species are loaded on both cells
\* along z and on one cell along r
C18_Witness ==
    /\ pc = "ctor_diags" /\ Len(trace) = 7
    /\ args.p_zmin = -1 /\ args.p_zmax = 3 /\ args.Npz = 2 * args.p_nz
    /\ args.p_rmin = -1 /\ args.p_rmax = 1 /\ args.Npr = args.p_nr
    /\ iteration = 0 /\ time = 0

\* C19: step changes nothing of the configuration the driver owns: from the
\* call to its return or its exception, for every N and all flags, dt,
\* p_nz, the list of diagnostics (members and order), the list of species
\* (members and order) and the moving window attached stay as they are.
C19_StepKeepsConfiguration ==
    [][((pc = "idle" /\ pc' = "check") \/ pc \in InStep)
          => UNCHANGED <<dt, p_nz, diags, ptcl, moving_win, fld>>]_vars

\* a call has failed in its second cycle, with two diagnostics and a moving
\* window attached
C19_Witness ==
    /\ pc = "idle" /\ err = "CollaboratorError" /\ iteration = 1
    /\ diags = <<1, 2>> /\ ptcl = <<"electrons", "ions">>
    /\ moving_win = "MovingWindow" /\ dt = 2 /\ p_nz = 2

\* the calls of fld.push and of the transforms back, in the cycle so far:
\* one push at most, with ptcl_feedback as its argument, after every gather,
\* after J and rho_next are in spectral space and after correct_currents if
\* that is asked for; then spect2interp('E'), then spect2interp('B'), and
\* nothing else; iteration and time are incremented after them only
PushOrder ==
    LET P  == At("push")
        SE == AtArg("spect2interp", "E")
        SB == AtArg("spect2interp", "B")
    IN  /\ Cardinality(P) <= 1 /\ Cardinality(SE) <= 1 /\ Cardinality(SB) <= 1
        /\ At("spect2interp") = SE \cup SB
        /\ \A p \in P :
              /\ trace[p].arg = IF flags.ptcl_feedback THEN "True" ELSE "False"
              /\ trace[p].on = "fld"
              /\ \E j \in AtArg("interp2spect", "J") : j < p
              /\ \E j \in AtArg("interp2spect", "rho_next") : j < p
              /\ flags.correct_currents
                    => \E j \in At("correct_currents") : j < p
              /\ \A j \in DOMAIN trace : j > p => j \in SE \cup SB
              /\ Cardinality(At("gather")) = Len(ptcl)
        /\ \A e \in SE : e - 1 \in P
        /\ \A b \in SB : b - 1 \in SE
        /\ CycleDone => P # {} /\ SE # {} /\ SB # {}
        /\ iteration = iter0 + i_step /\ time = iteration * dt

====
